---- MODULE Spec2Model ----
(***************************************************************************)
(* Model of the stress-test service (src/stress_test.py): the Flask        *)
(* handler stress_test_endpoint, the dispatcher run_stress_test with its   *)
(* ThreadPoolExecutor / as_completed collection loop, the per-request      *)
(* executor _do_request, and the percentile aggregation.                   *)
(***************************************************************************)
EXTENDS Integers, Sequences, FiniteSets, Bags, TLC

(***************************************************************************)
(* Bounds of the exploration.                                              *)
(***************************************************************************)
MaxRequests == 2      \* largest total_requests a client sends
MaxWorkers == 2       \* largest max_workers a client sends
MaxLat == 1           \* time_ms of a request is drawn from 1..MaxLat
MaxPctLen == 11       \* longest latency list given to pct on its own
MaxPctLat == 2        \* its values are drawn from 1..MaxPctLat
MaxExplored == 1      \* submissions followed of a batch above MaxRequests
MaxAggLen == 3        \* requests of a batch collected on its own

(***************************************************************************)
(* Program constants.                                                      *)
(***************************************************************************)
DefaultTotalRequests == 100
DefaultMaxWorkers == 10
DefaultTimeout == 30

None == "None"

(***************************************************************************)
(* JSON request bodies.  A body is a function from the keys that are       *)
(* present to their values; dict.get of an absent key gives None.          *)
(***************************************************************************)
Str(s) == [kind |-> "str", val |-> s]
Num(n) == [kind |-> "int", val |-> n]
Bool(b) == [kind |-> "bool", val |-> b]
Null == [kind |-> "null", val |-> None]
List(l) == [kind |-> "list", val |-> l]
Dict(d) == [kind |-> "dict", val |-> d]

Get(d, k) == IF k \in DOMAIN d THEN d[k] ELSE Null

\* Python truthiness of a JSON value (None, "", 0, False, [] and {} are
\* falsy).
Truthy(v) ==
    CASE v.kind = "null" -> FALSE
      [] v.kind = "str" -> v.val # <<>>
      [] v.kind = "int" -> v.val # 0
      [] v.kind = "bool" -> v.val
      [] v.kind = "list" -> v.val # <<>>
      [] v.kind = "dict" -> DOMAIN v.val # {}

\* Python's  a or b
OrElse(v, dflt) == IF Truthy(v) THEN v ELSE dflt

(***************************************************************************)
(* Strings are sequences of one-character strings, so that parsing and     *)
(* case conversion are computed and not assumed.                           *)
(***************************************************************************)
Letters == {"a", "b", "c", "d", "e", "f", "g", "h", "i", "l", "o", "p", "r",
            "s", "t", "u", "x",
            "A", "B", "C", "D", "E", "F", "G", "H", "I", "L", "O", "P", "R",
            "S", "T", "U", "X"}
SchemeChars == Letters \cup {"+", "-", "."}

UpperChar(c) ==
    CASE c = "a" -> "A" [] c = "f" -> "F" [] c = "h" -> "H" [] c = "p" -> "P"
      [] c = "s" -> "S" [] c = "t" -> "T" [] c = "g" -> "G" [] c = "e" -> "E"
      [] c = "o" -> "O" [] c = "r" -> "R" [] c = "c" -> "C"
      [] c = "b" -> "B" [] c = "d" -> "D" [] c = "i" -> "I" [] c = "l" -> "L"
      [] c = "u" -> "U" [] c = "x" -> "X"
      [] OTHER -> c

LowerChar(c) ==
    CASE c = "A" -> "a" [] c = "F" -> "f" [] c = "H" -> "h" [] c = "P" -> "p"
      [] c = "S" -> "s" [] c = "T" -> "t" [] c = "G" -> "g" [] c = "E" -> "e"
      [] c = "O" -> "o" [] c = "R" -> "r" [] c = "C" -> "c"
      [] c = "B" -> "b" [] c = "D" -> "d" [] c = "I" -> "i" [] c = "L" -> "l"
      [] c = "U" -> "u" [] c = "X" -> "x"
      [] OTHER -> c

Upper(s) == [i \in 1..Len(s) |-> UpperChar(s[i])]
Lower(s) == [i \in 1..Len(s) |-> LowerChar(s[i])]

\* str.find(c, start): 0-based position of the first c at or after start,
\* or -1.
RECURSIVE Find(_, _, _)
Find(s, cs, start) ==
    IF start >= Len(s) THEN -1
    ELSE IF s[start + 1] \in cs THEN start
    ELSE Find(s, cs, start + 1)

\* s[a:b] with 0-based half-open bounds, clamped to the string as Python
\* clamps them
Min(a, b) == IF a <= b THEN a ELSE b
Slice(s, a, b) ==
    LET hi == Min(b, Len(s))
    IN IF hi <= a THEN <<>> ELSE SubSeq(s, a + 1, hi)

\* str.strip(): leading and trailing blanks removed
RECURSIVE LStrip(_)
LStrip(s) == IF s # <<>> /\ Head(s) = " " THEN LStrip(Tail(s)) ELSE s

RECURSIVE RStrip(_)
RStrip(s) ==
    IF s # <<>> /\ s[Len(s)] = " " THEN RStrip(SubSeq(s, 1, Len(s) - 1)) ELSE s

Strip(s) == RStrip(LStrip(s))

(***************************************************************************)
(* urlparse, as far as _validate_url reads its result: scheme and netloc.  *)
(***************************************************************************)
urlparse(url) ==
    LET i == Find(url, {":"}, 0)
        hasScheme == /\ i > 0
                     /\ url[1] \in Letters
                     /\ \A j \in 1..i : url[j] \in SchemeChars
        scheme == IF hasScheme THEN Lower(Slice(url, 0, i)) ELSE <<>>
        rest == IF hasScheme THEN Slice(url, i + 1, Len(url)) ELSE url
        hasNetloc == Slice(rest, 0, 2) = <<"/", "/">>
        wdelim == Find(rest, {"/", "?", "#"}, 2)
        delim == IF wdelim >= 0 THEN wdelim ELSE Len(rest)
        netloc == IF hasNetloc THEN Slice(rest, 2, delim) ELSE <<>>
    IN [scheme |-> scheme, netloc |-> netloc]

HTTP == <<"h", "t", "t", "p">>
HTTPS == <<"h", "t", "t", "p", "s">>

\* variant: the host is not looked at
validate_url_scheme_only(value) ==
    urlparse(value).scheme \in {HTTP, HTTPS}

validate_url(value) ==
    LET parsed == urlparse(value)
    IN /\ parsed.scheme \in {HTTP, HTTPS}
       /\ parsed.netloc # <<>>

(***************************************************************************)
(* _method_func: the table of supported methods.  TRUE when the lookup     *)
(* succeeds, FALSE when it raises ValueError.                              *)
(***************************************************************************)
GET == <<"G", "E", "T">>
POST == <<"P", "O", "S", "T">>
PUT == <<"P", "U", "T">>
PATCH == <<"P", "A", "T", "C", "H">>
DELETE == <<"D", "E", "L", "E", "T", "E">>
TRACE == <<"T", "R", "A", "C", "E">>

mapping == {GET, POST, PUT, PATCH, DELETE}

\* variant: an unknown method falls back to session.get
method_func_default(method_upper) == TRUE

method_func(method_upper) == method_upper \in mapping

(***************************************************************************)
(* _build_headers.  A header mapping is a function from header names to    *)
(* values; the result gives the mapping returned and the base_headers      *)
(* object as the call leaves it (the caller's mapping is passed by         *)
(* reference).                                                             *)
(***************************************************************************)
BEARER == <<"b", "e", "a", "r", "e", "r">>
BASIC == <<"b", "a", "s", "i", "c">>

\* f"Bearer {token}" and f"Basic {token}"
BearerValue(token) == <<"B", "e", "a", "r", "e", "r", " ">> \o token
BasicValue(token) == <<"B", "a", "s", "i", "c", " ">> \o token

\* headers[name] = value
SetItem(headers, name, value) ==
    [n \in DOMAIN headers \cup {name} |->
        IF n = name THEN value ELSE headers[n]]

\* variant: the scheme is compared as given
OverlayExact(headers, token, auth_scheme) ==
    IF Truthy(token) /\ Truthy(auth_scheme)
    THEN IF auth_scheme.val = BEARER
         THEN SetItem(headers, "Authorization", BearerValue(token.val))
         ELSE IF auth_scheme.val = BASIC
         THEN SetItem(headers, "Authorization", BasicValue(token.val))
         ELSE headers
    ELSE headers

\* lines 22-26 on the mapping headers
Overlay(headers, token, auth_scheme) ==
    IF Truthy(token) /\ Truthy(auth_scheme)
    THEN LET scheme == Lower(Strip(auth_scheme.val))
         IN IF scheme = BEARER
            THEN SetItem(headers, "Authorization", BearerValue(token.val))
            ELSE IF scheme = BASIC
            THEN SetItem(headers, "Authorization", BasicValue(token.val))
            ELSE headers
    ELSE headers

\* variant: the Authorization header is written into the caller's mapping
build_headers_in_place(base_headers, token, auth_scheme) ==
    IF Truthy(base_headers)
    THEN [headers |-> Overlay(base_headers.val, token, auth_scheme),
          base_headers |-> Dict(Overlay(base_headers.val, token, auth_scheme))]
    ELSE [headers |-> Overlay(<<>>, token, auth_scheme),
          base_headers |-> base_headers]

\* lines 12-28
build_headers(base_headers, token, auth_scheme) ==
    LET headers == IF Truthy(base_headers) THEN base_headers.val ELSE <<>>
    IN [headers |-> Overlay(headers, token, auth_scheme),
        base_headers |-> base_headers]

\* line 65: random.choice(tokens) if tokens else None
TokenChoices(tokens) ==
    IF Truthy(tokens) THEN {tokens.val[j] : j \in 1..Len(tokens.val)}
    ELSE {Null}

\* variant: DELETE carries the body too
JsonMethodsAndDelete == {POST, PUT, PATCH, DELETE}

\* line 71: the methods that carry the body
JsonMethods == {POST, PUT, PATCH}

\* lines 70-72: the keyword arguments of the transport call
Kwargs(method_upper, req_headers, body, timeout) ==
    IF method_upper \in JsonMethods
    THEN [headers |-> req_headers, timeout |-> timeout, json |-> body]
    ELSE [headers |-> req_headers, timeout |-> timeout]

(***************************************************************************)
(* Aggregation helpers of run_stress_test.                                 *)
(***************************************************************************)
RECURSIVE Insert(_, _)
Insert(s, x) ==
    IF s = <<>> THEN <<x>>
    ELSE IF x <= Head(s) THEN <<x>> \o s
    ELSE <<Head(s)>> \o Insert(Tail(s), x)

RECURSIVE sorted(_)
sorted(s) == IF s = <<>> THEN <<>> ELSE Insert(sorted(Tail(s)), Head(s))

\* variant: a tie goes up
round_half_up(num, den) == (2 * num + den) \div (2 * den)

\* Python 3 round() of the quotient num/den (den > 0, num >= 0): to the
\* nearest integer, a tie going to the even neighbour.  The float product
\* (p / 100.0) * (L - 1) rounds as the exact quotient does for p in
\* {50, 95, 99}.
round(num, den) ==
    LET q == num \div den
        r == num % den
    IN IF 2 * r < den THEN q
       ELSE IF 2 * r > den THEN q + 1
       ELSE IF q % 2 = 0 THEN q ELSE q + 1

\* variant: no percentile is given for fewer than two samples
pct_needs_two(latencies_sorted, p) ==
    IF Len(latencies_sorted) < 2 THEN Null
    ELSE LET k == round(p * (Len(latencies_sorted) - 1), 100)
         IN Num(latencies_sorted[k + 1])

\* lines 140-144
pct(latencies_sorted, p) ==
    IF latencies_sorted = <<>> THEN Null
    ELSE LET k == round(p * (Len(latencies_sorted) - 1), 100)
         IN Num(latencies_sorted[k + 1])

RECURSIVE sum(_)
sum(s) == IF s = <<>> THEN 0 ELSE Head(s) + sum(Tail(s))

\* variant: a record counts as a success when it carries no error
GetOkNoError(res) == "error" \notin DOMAIN res

\* res.get("ok") and res.get("time_ms", 0) on a result record
GetOk(res) == IF "ok" \in DOMAIN res THEN res.ok ELSE FALSE
GetTime(res) == IF "time_ms" \in DOMAIN res THEN res.time_ms ELSE 0

\* failed = total_requests - success
Failed(total, succ) == total - succ

\* variant: the latencies are sorted from the largest to the smallest
LatenciesSortedDescending(lats) ==
    [j \in 1..Len(lats) |-> sorted(lats)[Len(lats) + 1 - j]]

\* line 138
LatenciesSorted(lats) == IF lats # <<>> THEN sorted(lats) ELSE <<>>

\* variant: the percentiles are read from the latencies as collected
SummarizeUnsorted(total, succ, lats) ==
    [total_requests |-> total,
     success |-> succ,
     failed |-> Failed(total, succ),
     avg_time_ms |-> IF lats # <<>> THEN <<sum(lats), Len(lats)>> ELSE <<>>,
     p50_time_ms |-> pct(lats, 50),
     p95_time_ms |-> pct(lats, 95),
     p99_time_ms |-> pct(lats, 99)]

\* The summary dictionary (avg_time_ms is kept as the pair sum, count: the
\* mean is not an integer).
Summarize(total, succ, lats) ==
    LET latencies_sorted == LatenciesSorted(lats)
    IN [total_requests |-> total,
        success |-> succ,
        failed |-> Failed(total, succ),
        avg_time_ms |-> IF lats # <<>> THEN <<sum(lats), Len(lats)>> ELSE <<>>,
        p50_time_ms |-> pct(latencies_sorted, 50),
        p95_time_ms |-> pct(latencies_sorted, 95),
        p99_time_ms |-> pct(latencies_sorted, 99)]

(***************************************************************************)
(* _do_request: the record returned for request i.  The transport either   *)
(* answers with a status code or raises; an unsupported method raises      *)
(* ValueError inside the same try block before the transport is called.    *)
(***************************************************************************)
TransportOutcomes ==
    {[kind |-> "resp", status |-> 200],
     [kind |-> "resp", status |-> 500],
     [kind |-> "raise", status |-> 0]}

\* requests.Response.ok
RespOk(status) == status < 400

\* lines 77-83
SuccessRecord(i, status, ms) ==
    [index |-> i, status_code |-> status, ok |-> RespOk(status),
     time_ms |-> ms, response |-> "payload"]

\* lines 84-91
ErrorRecord(i, msg, ms) ==
    [index |-> i, error |-> msg, ok |-> FALSE, time_ms |-> ms]

\* variant: a transport exception is not caught
do_request_propagates(i, outcome, ms) ==
    IF outcome.kind = "resp"
    THEN [raised |-> FALSE, value |-> SuccessRecord(i, outcome.status, ms)]
    ELSE [raised |-> TRUE, value |-> <<>>]

\* What the future of a work item receives: set_result(value), or
\* set_exception when the call raised out of _do_request.
do_request(i, outcome, ms) ==
    IF outcome.kind = "resp"
    THEN [raised |-> FALSE, value |-> SuccessRecord(i, outcome.status, ms)]
    ELSE [raised |-> FALSE, value |-> ErrorRecord(i, "transport error", ms)]

(***************************************************************************)
(* State.                                                                  *)
(***************************************************************************)
VARIABLES
    pc,               \* position of the request handler / dispatcher thread
    data,             \* JSON body of the POST /stress-test request
    response,         \* HTTP response of the handler: status and body
    url, method, total_requests, max_workers, include_results,
                      \* locals of stress_test_endpoint
    job,              \* the inputs shared by all requests of the job:
                      \* headers, body, tokens, auth_scheme, timeout
    method_upper, results, latencies, success,
                      \* locals of run_stress_test
    futures,          \* futures[i + 1]: state and outcome of request i
    work_queue,       \* executor._work_queue (-1 is the None wake-up item)
    threads,          \* executor._threads: position and work item of each
    idle_semaphore,   \* executor._idle_semaphore
    shutdown,         \* executor._shutdown
    ac,               \* as_completed: finished, pending, waiter list, and
                      \* order, the requests that have finished and were
                      \* not yielded yet, in finishing order
    raised,           \* an exception is propagating out of run_stress_test
    calls,            \* transport log: for each index the transport was
                      \* called for, the keyword arguments it received and
                      \* "inflight", "returned" or "raised"
    plat, pout        \* input and output of pct evaluated on its own

vars == <<pc, data, response, url, method, total_requests, max_workers,
          include_results, job, method_upper, results, latencies, success,
          futures, work_queue, threads, idle_semaphore, shutdown, ac,
          raised, calls, plat, pout>>

handlerVars ==
    <<url, method, total_requests, max_workers, include_results, job>>
runVars == <<method_upper, results, latencies, success>>
poolVars == <<futures, work_queue, threads, idle_semaphore, shutdown>>
pctVars == <<plat, pout>>

\* no response has been sent yet; a response body is a JSON object
NoResponse == [status |-> 0, body |-> [pending |-> TRUE]]
NoJob == [headers |-> Null, body |-> Null, tokens |-> Null,
          auth_scheme |-> Null, timeout |-> DefaultTimeout]
NoAc == [installed |-> FALSE, finished |-> {}, pending |-> {}, waiter |-> <<>>,
         order |-> <<>>]

(***************************************************************************)
(* Request bodies a client may send.                                       *)
(***************************************************************************)
BadUrls ==
    {<<>>,                                              \* ""
     <<"a">>,                                           \* no scheme, no host
     <<"f", "t", "p", ":", "/", "/", "a">>,             \* ftp://a
     <<"h", "t", "t", "p", ":", "/", "/">>,             \* http://
     <<"h", "t", "t", "p", "s", ":", "/", "/", "/", "p">>,  \* https:///p
     <<"h", "t", "t", "p", ":", "a">>,                  \* http:a
     <<"/", "/", "a">>}                                 \* //a

GoodUrls ==
    {<<"h", "t", "t", "p", ":", "/", "/", "a">>,        \* http://a
     <<"H", "T", "T", "P", "S", ":", "/", "/", "a", "/", "p">>}  \* HTTPS://a/p

Urls == BadUrls \cup GoodUrls

Methods == {<<>>, <<"p", "o", "s", "t">>, TRACE}

Field(k, S) == {<<>>} \cup {(k :> v) : v \in S}

GoodUrl == Str(<<"h", "t", "t", "p", ":", "/", "/", "a">>)

\* requests that vary the url of a one-request job
UrlRequests ==
    {u @@ ("total_requests" :> Num(1)) @@ ("max_workers" :> Num(1)) :
        u \in Field("url", {Str(x) : x \in Urls})}

\* GET jobs of every size and pool size within the bounds
JobRequests ==
    {("url" :> GoodUrl) @@ ("total_requests" :> Num(n))
                        @@ ("max_workers" :> Num(w)) :
        n \in 1..MaxRequests, w \in 1..MaxWorkers}

\* requests whose total_requests or max_workers is missing, negative or zero
CountRequests ==
    {("url" :> GoodUrl) @@ n @@ w :
        n \in Field("total_requests", {Num(x) : x \in -1..1}),
        w \in Field("max_workers", {Num(x) : x \in -1..1})}

\* requests that vary the method of a job of one or two requests run by
\* one worker
MethodRequests ==
    {("url" :> GoodUrl) @@ m @@ n @@ ("max_workers" :> Num(1)) :
        m \in {("method" :> Str(x)) : x \in Methods},
        n \in {("total_requests" :> Num(x)) : x \in 1..2}}

\* requests that ask for the raw results of a two-request job, or decline
ShapeRequests ==
    {("url" :> GoodUrl) @@ ("total_requests" :> Num(2)) @@ r :
        r \in {("include_results" :> Bool(x)) : x \in BOOLEAN}}

\* token lists, auth schemes and base headers a client may send
TokenLists ==
    {List(<<>>), List(<<Str(<<"a">>)>>), List(<<Str(<<"a">>), Str(<<"x">>)>>),
     List(<<Str(<<>>)>>)}

AuthSchemes ==
    {Str(BEARER), Str(<<"B", "a", "s", "i", "c">>),
     Str(<<" ", "B", "E", "A", "R", "E", "R", " ">>), Str(<<"x">>)}

BaseHeaders ==
    {Dict("X-Id" :> <<"1">>), Dict("Authorization" :> <<"o">>)}

\* requests that vary the tokens, the auth scheme and the base headers of a
\* one-request GET job
AuthRequests ==
    {("url" :> GoodUrl) @@ ("total_requests" :> Num(1))
                        @@ ("max_workers" :> Num(1)) @@ t @@ a @@ h :
        t \in Field("tokens", TokenLists),
        a \in Field("auth_scheme", AuthSchemes),
        h \in Field("headers", BaseHeaders)}

\* a two-request GET job run by one worker, each request drawing one of two
\* tokens
TwoTokenRequests ==
    {("url" :> GoodUrl) @@ ("total_requests" :> Num(2))
                        @@ ("max_workers" :> Num(1))
                        @@ ("tokens" :> List(<<Str(<<"a">>), Str(<<"x">>)>>))
                        @@ ("auth_scheme" :> a) @@ ("headers" :> h) :
        a \in {Str(BEARER)}, h \in {Dict("X-Id" :> <<"1">>)}}

BodyMethods ==
    {<<>>, <<"d", "e", "l", "e", "t", "e">>, <<"p", "o", "s", "t">>, PUT,
     <<"P", "a", "t", "c", "h">>}

\* requests that vary the method, the body and the timeout of a one-request
\* job
BodyRequests ==
    {("url" :> GoodUrl) @@ ("total_requests" :> Num(1))
                        @@ ("max_workers" :> Num(1)) @@ m @@ b @@ t :
        m \in {("method" :> Str(x)) : x \in BodyMethods},
        b \in Field("body", {Dict("k" :> <<"v">>)}),
        t \in Field("timeout", {Num(0), Num(5)})}

Requests ==
    UrlRequests \cup JobRequests \cup CountRequests \cup MethodRequests
        \cup ShapeRequests \cup AuthRequests \cup TwoTokenRequests
        \cup BodyRequests

Init ==
    /\ pc = "idle"
    /\ data = <<>>
    /\ response = NoResponse
    /\ url = <<>>
    /\ method = <<>>
    /\ total_requests = 0
    /\ max_workers = 0
    /\ include_results = FALSE
    /\ job = NoJob
    /\ method_upper = <<>>
    /\ results = <<>>
    /\ latencies = <<>>
    /\ success = 0
    /\ futures = <<>>
    /\ work_queue = <<>>
    /\ threads = EmptyBag
    /\ idle_semaphore = 0
    /\ shutdown = FALSE
    /\ ac = NoAc
    /\ raised = FALSE
    /\ calls = <<>>
    /\ plat = <<>>
    /\ pout = <<>>

(***************************************************************************)
(* stress_test_endpoint                                                    *)
(***************************************************************************)
\* line 173: the JSON body arrives
Receive ==
    /\ pc = "idle"
    /\ \E d \in Requests : data' = d
    /\ pc' = "check_url"
    /\ UNCHANGED <<response, handlerVars, runVars, poolVars, ac, raised,
                   calls, pctVars>>

Error400(msg) == [status |-> 400, body |-> [error |-> msg]]

\* lines 175-180
CheckUrl ==
    /\ pc = "check_url"
    /\ LET v == Get(data, "url")
       IN IF ~Truthy(v) \/ ~validate_url(v.val)
          THEN /\ response' = Error400("Invalid or missing 'url'")
               /\ pc' = "done"
               /\ url' = url
          ELSE /\ url' = v.val
               /\ pc' = "parse"
               /\ response' = response
    /\ UNCHANGED <<data, method, total_requests, max_workers, include_results,
                   job, runVars, poolVars, ac, raised, calls, pctVars>>

\* int(data.get(k) or dflt)
IntOr(d, k, dflt) == OrElse(Get(d, k), Num(dflt)).val

\* total_requests <= 0 or max_workers <= 0 (line 192)
BadCounts(n, w) == n <= 0 \/ w <= 0

\* lines 182-196
ParseArgs ==
    /\ pc = "parse"
    /\ method' = Upper(OrElse(Get(data, "method"), Str(GET)).val)
    /\ total_requests' = IntOr(data, "total_requests", DefaultTotalRequests)
    /\ max_workers' = IntOr(data, "max_workers", DefaultMaxWorkers)
    /\ job' = [headers |-> Get(data, "headers"),
               body |-> Get(data, "body"),
               tokens |-> Get(data, "tokens"),
               auth_scheme |-> Get(data, "auth_scheme"),
               timeout |-> IntOr(data, "timeout", DefaultTimeout)]
    /\ include_results' = IF "include_results" \in DOMAIN data
                          THEN Truthy(data["include_results"]) ELSE FALSE
    /\ IF BadCounts(total_requests', max_workers')
       THEN /\ response' = Error400("'total_requests' and 'max_workers' must be > 0")
            /\ pc' = "done"
       ELSE /\ response' = response
            /\ pc' = "run_stress_test"
    /\ UNCHANGED <<data, url, runVars, poolVars, ac, raised, calls, pctVars>>

(***************************************************************************)
(* run_stress_test: creation of the pool and submission of the futures     *)
(***************************************************************************)
NoneItem == -1

\* lines 107-114
RunStart ==
    /\ pc = "run_stress_test"
    /\ method_upper' = Upper(method)
    /\ results' = <<>>
    /\ latencies' = <<>>
    /\ success' = 0
    /\ pc' = "submit"
    /\ UNCHANGED <<data, response, handlerVars, poolVars, ac, raised, calls,
                   pctVars>>

\* variant: the last index is not submitted
MoreToSubmitShort(submitted, total) == submitted < total - 1

\* range(total_requests): the indices still to submit
MoreToSubmit(submitted, total) == submitted < total

\* variant: the pool never grows past its first thread
SpawnsThreadOnce(sem, num_threads, maxw) == sem = 0 /\ num_threads < 1

\* variant: the pool may grow one thread past max_workers
SpawnsThreadLax(sem, num_threads, maxw) == sem = 0 /\ num_threads <= maxw

\* _adjust_thread_count: a new thread is started when no idle thread is
\* counted by the semaphore and the pool is below max_workers
SpawnsThread(sem, num_threads, maxw) == sem = 0 /\ num_threads < maxw

NewFuture == [state |-> "PENDING", raised |-> FALSE, value |-> <<>>]
NewThread == [pc |-> "get", item |-> NoneItem]

\* executor._threads is a set of threads; a thread is told from another only
\* by its position and its work item, so the set is kept as a bag of these.
\* Step(th, th2): one thread in state th moves to state th2.
Step(th, th2) == (threads (-) SetToBag({th})) (+) SetToBag({th2})

\* lines 115-129, one executor.submit(_do_request, i, ...)
Submit ==
    /\ pc = "submit"
    /\ MoreToSubmit(Len(futures), total_requests)
    /\ total_requests > MaxRequests => Len(futures) < MaxExplored
    /\ LET i == Len(futures)
       IN /\ futures' = Append(futures, NewFuture)
          /\ work_queue' = Append(work_queue, i)
          /\ IF idle_semaphore > 0
             THEN /\ idle_semaphore' = idle_semaphore - 1
                  /\ threads' = threads
             ELSE /\ idle_semaphore' = idle_semaphore
                  /\ threads' = IF SpawnsThread(idle_semaphore,
                                                BagCardinality(threads),
                                                max_workers)
                                THEN threads (+) SetToBag({NewThread})
                                ELSE threads
    /\ UNCHANGED <<pc, data, response, handlerVars, runVars, shutdown, ac,
                   raised, calls, pctVars>>

(***************************************************************************)
(* The pool's worker threads (_worker, _WorkItem.run)                      *)
(***************************************************************************)
\* variant: the waiter is not told
FinishSilently(i, out) ==
    /\ futures' = [futures EXCEPT ![i + 1] =
                     [state |-> "FINISHED", raised |-> out.raised,
                      value |-> out.value]]
    /\ ac' = [ac EXCEPT !.order = Append(@, i)]

\* future.set_result / set_exception: the future becomes FINISHED and an
\* installed as_completed waiter is told, in finishing order
Finish(i, out) ==
    /\ futures' = [futures EXCEPT ![i + 1] =
                     [state |-> "FINISHED", raised |-> out.raised,
                      value |-> out.value]]
    /\ ac' = IF ac.installed
             THEN [ac EXCEPT !.waiter = Append(@, i), !.order = Append(@, i)]
             ELSE [ac EXCEPT !.order = Append(@, i)]

\* work_queue.get(block=True) returns work item i and the thread runs it
\* up to the transport call: set_running, then _do_request lines 65-73
\* (headers, start of the clock, method lookup).  The transport is called
\* only when the lookup succeeded; otherwise the ValueError is handled by
\* lines 84-91 at once.
WorkerGet(th) ==
    /\ th.pc = "get"
    /\ work_queue # <<>>
    /\ Head(work_queue) # NoneItem
    /\ \E token \in TokenChoices(job.tokens) :
       LET i == Head(work_queue)
           built == build_headers(job.headers, token, job.auth_scheme)
       IN /\ work_queue' = Tail(work_queue)
          /\ job' = [job EXCEPT !.headers = built.base_headers]
          /\ IF method_func(method_upper)
             THEN /\ calls' = (i :> [state |-> "inflight",
                                     kwargs |-> Kwargs(method_upper,
                                                       built.headers, job.body,
                                                       job.timeout)]) @@ calls
                  /\ threads' = Step(th, [pc |-> "call", item |-> i])
                  /\ futures' = [futures EXCEPT ![i + 1].state = "RUNNING"]
                  /\ ac' = ac
             ELSE /\ \E ms \in 1..MaxLat :
                        Finish(i, do_request(i, [kind |-> "raise", status |-> 0], ms))
                  /\ threads' = Step(th, [pc |-> "release", item |-> i])
                  /\ calls' = calls
    /\ UNCHANGED <<pc, data, response, url, method, total_requests,
                   max_workers, include_results, runVars, idle_semaphore,
                   shutdown, raised, pctVars>>

\* _do_request lines 73-91: the transport answers or raises
WorkerCall(th) ==
    /\ th.pc = "call"
    /\ \E outcome \in TransportOutcomes, ms \in 1..MaxLat :
          /\ Finish(th.item, do_request(th.item, outcome, ms))
          /\ calls' = [calls EXCEPT ![th.item].state =
                          IF outcome.kind = "resp" THEN "returned" ELSE "raised"]
    /\ threads' = Step(th, [th EXCEPT !.pc = "release"])
    /\ UNCHANGED <<pc, data, response, handlerVars, runVars, work_queue,
                   idle_semaphore, shutdown, raised, pctVars>>

\* _worker: executor._idle_semaphore.release() after the work item
WorkerRelease(th) ==
    /\ th.pc = "release"
    /\ idle_semaphore' = idle_semaphore + 1
    /\ threads' = Step(th, [pc |-> "get", item |-> NoneItem])
    /\ UNCHANGED <<pc, data, response, handlerVars, runVars, futures,
                   work_queue, shutdown, ac, raised, calls, pctVars>>

\* _worker: the None wake-up item after shutdown; it is put back for the
\* next thread and the thread ends
WorkerExit(th) ==
    /\ th.pc = "get"
    /\ work_queue # <<>>
    /\ Head(work_queue) = NoneItem
    /\ shutdown
    /\ work_queue' = Append(Tail(work_queue), NoneItem)
    /\ threads' = Step(th, [th EXCEPT !.pc = "exit"])
    /\ UNCHANGED <<pc, data, response, handlerVars, runVars, futures,
                   idle_semaphore, shutdown, ac, raised, calls, pctVars>>

(***************************************************************************)
(* run_stress_test: the as_completed loop, leaving the with block and the  *)
(* summary                                                                 *)
(***************************************************************************)
FinishedSet == {i \in 0..(Len(futures) - 1) : futures[i + 1].state = "FINISHED"}

\* as_completed(futures): the futures already finished are set aside and a
\* waiter is installed on all of them (line 130, first next())
AsCompletedStart ==
    /\ pc = "submit"
    /\ ~MoreToSubmit(Len(futures), total_requests)
    /\ ac' = [installed |-> TRUE,
              finished |-> FinishedSet,
              pending |-> (0..(Len(futures) - 1)) \ FinishedSet,
              waiter |-> <<>>,
              order |-> ac.order]
    /\ pc' = "collect"
    /\ UNCHANGED <<data, response, handlerVars, runVars, poolVars, raised,
                   calls, pctVars>>

\* variant: the record of the yielded future is appended twice
LoopBodyTwice(i) ==
    LET res == futures[i + 1].value
    IN /\ results' = Append(Append(results, res), res)
       /\ latencies' = Append(latencies, GetTime(res))
       /\ success' = IF GetOk(res) THEN success + 1 ELSE success
       /\ UNCHANGED <<raised, pc, method_upper>>

\* lines 131-135 for the yielded future i
LoopBody(i) ==
    IF futures[i + 1].raised
    THEN /\ raised' = TRUE
         /\ pc' = "exit_with"
         /\ UNCHANGED runVars
    ELSE LET res == futures[i + 1].value
         IN /\ results' = Append(results, res)
            /\ latencies' = Append(latencies, GetTime(res))
            /\ success' = IF GetOk(res) THEN success + 1 ELSE success
            /\ UNCHANGED <<raised, pc, method_upper>>

\* as_completed yields a future that was finished when the loop started
\* (these come in no particular order: they are kept in a set)
CollectFinished ==
    /\ pc = "collect"
    /\ \E i \in ac.finished :
          /\ ac' = [ac EXCEPT !.finished = @ \ {i},
                              !.order = SelectSeq(@, LAMBDA x : x # i)]
          /\ LoopBody(i)
    /\ UNCHANGED <<data, response, handlerVars, poolVars, calls, pctVars>>

\* variant: the future that finished last is yielded first
NextFinishedNewest(waiter) == waiter[Len(waiter)]

\* the waiter's list of finished futures is yielded oldest first
NextFinished(waiter) == Head(waiter)

\* as_completed yields the futures that finished since, in finishing order
CollectWaiter ==
    /\ pc = "collect"
    /\ ac.finished = {}
    /\ ac.waiter # <<>>
    /\ LET i == NextFinished(ac.waiter)
       IN /\ ac' = [ac EXCEPT !.waiter = SelectSeq(@, LAMBDA x : x # i),
                              !.pending = @ \ {i},
                              !.order = SelectSeq(@, LAMBDA x : x # i)]
          /\ LoopBody(i)
    /\ UNCHANGED <<data, response, handlerVars, poolVars, calls, pctVars>>

\* the loop ends when nothing is pending
LoopEnd ==
    /\ pc = "collect"
    /\ ac.finished = {}
    /\ ac.pending = {}
    /\ pc' = "exit_with"
    /\ UNCHANGED <<data, response, handlerVars, runVars, poolVars, ac, raised,
                   calls, pctVars>>

\* leaving the with block: executor.shutdown(wait=True) puts the wake-up
\* item and then joins the threads
Shutdown ==
    /\ pc = "exit_with"
    /\ shutdown' = TRUE
    /\ work_queue' = Append(work_queue, NoneItem)
    /\ pc' = "join"
    /\ UNCHANGED <<data, response, handlerVars, runVars, futures, threads,
                   idle_semaphore, ac, raised, calls, pctVars>>

Ok200(summ, res, incl) ==
    [status |-> 200,
     body |-> IF incl THEN [summary |-> summ, results |-> res]
              ELSE [summary |-> summ]]

\* the threads are joined; lines 137-156 and 210-218
Return ==
    /\ pc = "join"
    /\ \A th \in BagToSet(threads) : th.pc = "exit"
    /\ pc' = "done"
    /\ response' =
          IF raised THEN [status |-> 500, body |-> [error |-> "internal error"]]
          ELSE Ok200(Summarize(total_requests, success, latencies),
                     results, include_results)
    /\ UNCHANGED <<data, handlerVars, runVars, poolVars, ac, raised, calls,
                   pctVars>>

Worker ==
    \E th \in BagToSet(threads) :
        \/ WorkerGet(th)
        \/ WorkerCall(th)
        \/ WorkerRelease(th)
        \/ WorkerExit(th)

Next ==
    \/ Receive
    \/ CheckUrl
    \/ ParseArgs
    \/ RunStart
    \/ Submit
    \/ Worker
    \/ AsCompletedStart
    \/ CollectFinished
    \/ CollectWaiter
    \/ LoopEnd
    \/ Shutdown
    \/ Return

Spec == Init /\ [][Next]_vars

(***************************************************************************)
(* pct on its own: any latency list of up to MaxPctLen values, then the    *)
(* three percentiles of the summary.                                       *)
(***************************************************************************)
LatencyLists ==
    UNION {[1..n -> 1..MaxPctLat] : n \in 0..MaxPctLen}

PctInit ==
    /\ pc = "pct"
    /\ data = <<>>
    /\ response = NoResponse
    /\ url = <<>>
    /\ method = <<>>
    /\ total_requests = 0
    /\ max_workers = 0
    /\ include_results = FALSE
    /\ job = NoJob
    /\ method_upper = <<>>
    /\ results = <<>>
    /\ latencies = <<>>
    /\ success = 0
    /\ futures = <<>>
    /\ work_queue = <<>>
    /\ threads = EmptyBag
    /\ idle_semaphore = 0
    /\ shutdown = FALSE
    /\ ac = NoAc
    /\ raised = FALSE
    /\ calls = <<>>
    /\ plat \in LatencyLists
    /\ pout = <<>>

\* lines 138-153: the percentiles of the summary
PctApply ==
    /\ pc = "pct"
    /\ pout = <<>>
    /\ pout' = [p \in {50, 95, 99} |-> pct(LatenciesSorted(plat), p)]
    /\ UNCHANGED <<pc, data, response, handlerVars, runVars, poolVars, ac,
                   raised, calls, plat>>

PctNext == PctApply

PctSpec == PctInit /\ [][PctNext]_vars

(***************************************************************************)
(* The as_completed loop and the summary on their own: a batch of up to    *)
(* MaxAggLen requests, all finished when the loop starts, with any         *)
(* outcomes; the loop then collects them in any order (lines 130-156).     *)
(***************************************************************************)
\* the outcomes that differ in ok or time_ms
AggOutcomes == {o \in TransportOutcomes : o.kind = "raise" \/ RespOk(o.status)}

FinishedFuture(i, outcome, ms) ==
    [state |-> "FINISHED", raised |-> do_request(i, outcome, ms).raised,
     value |-> do_request(i, outcome, ms).value]

AggInit ==
    /\ pc = "collect"
    /\ data = ("url" :> GoodUrl)
    /\ response = NoResponse
    /\ url = GoodUrl.val
    /\ method = GET
    /\ \E n \in 1..MaxAggLen :
          /\ total_requests = n
          /\ \E o \in [1..n -> AggOutcomes], ms \in [1..n -> 1..MaxPctLat] :
                futures = [j \in 1..n |-> FinishedFuture(j - 1, o[j], ms[j])]
          /\ ac = [installed |-> TRUE, finished |-> 0..(n - 1),
                   pending |-> {}, waiter |-> <<>>,
                   order |-> [j \in 1..n |-> j - 1]]
          /\ calls = [i \in 0..(n - 1) |->
                        [state |-> IF futures[i + 1].value.ok
                                   THEN "returned" ELSE "raised",
                         kwargs |-> Kwargs(GET, <<>>, Null, DefaultTimeout)]]
          /\ idle_semaphore = n
    /\ max_workers = 1
    /\ include_results = FALSE
    /\ job = NoJob
    /\ method_upper = GET
    /\ results = <<>>
    /\ latencies = <<>>
    /\ success = 0
    /\ work_queue = <<>>
    /\ threads = SetToBag({NewThread})
    /\ shutdown = FALSE
    /\ raised = FALSE
    /\ plat = <<>>
    /\ pout = <<>>

AggNext ==
    \/ CollectFinished
    \/ LoopEnd
    \/ Shutdown
    \/ \E th \in BagToSet(threads) : WorkerExit(th)
    \/ Return

AggSpec == AggInit /\ [][AggNext]_vars

\* The handler thread keeps running and every pool thread is scheduled;
\* a transport call returns or raises within its timeout.
MainThread ==
    \/ Receive \/ CheckUrl \/ ParseArgs \/ RunStart \/ Submit
    \/ AsCompletedStart \/ CollectFinished \/ CollectWaiter \/ LoopEnd
    \/ Shutdown \/ Return

LiveSpec == Init /\ [][Next]_vars /\ WF_vars(MainThread) /\ WF_vars(Worker)

(***************************************************************************)
(* Properties                                                              *)
(***************************************************************************)
Indices(recs) == {recs[j].index : j \in 1..Len(recs)}
AllFinished == \A j \in 1..Len(futures) : futures[j].state = "FINISHED"

\* run_stress_test has returned its summary and results
BatchReturned == pc = "done" /\ response.status = 200

\* C1: when run_stress_test has returned, every submitted request has
\* finished and the results hold exactly total_requests records whose
\* index values are 0..total_requests-1, each once.
C1_ExactlyOncePerIndex ==
    BatchReturned =>
        /\ Len(futures) = total_requests
        /\ AllFinished
        /\ Len(results) = total_requests
        /\ Indices(results) = 0..(total_requests - 1)
        /\ \A j, k \in 1..Len(results) :
              results[j].index = results[k].index => j = k
        /\ include_results => response.body.results = results

\* a returned batch of several requests collected out of index order
C1_Witness ==
    /\ BatchReturned
    /\ total_requests >= 2
    /\ results[1].index # 0
    /\ include_results

\* the requests whose transport call has started and not yet finished
InFlight == {i \in DOMAIN calls : calls[i].state = "inflight"}

\* C2: in every state of a batch (once a request has been submitted) at
\* most max_workers requests are in flight.
C2_InFlightBounded ==
    futures # <<>> => Cardinality(InFlight) <= max_workers

\* the pool is saturated while a further request waits in the queue
C2_Witness ==
    /\ max_workers >= 1
    /\ Cardinality(InFlight) = max_workers
    /\ total_requests > max_workers
    /\ work_queue # <<>>

Raised == {i \in DOMAIN calls : calls[i].state = "raised"}

\* a transport exception of request i leaves a failure record for i
FailureRecorded ==
    \A i \in Raised :
        /\ futures[i + 1].state = "FINISHED"
        /\ ~futures[i + 1].raised
        /\ futures[i + 1].value.index = i
        /\ "error" \in DOMAIN futures[i + 1].value
        /\ futures[i + 1].value.ok = FALSE

\* a batch in which a transport call raised still returns a whole summary
FailureSummarised ==
    (pc = "done" /\ Raised # {}) =>
        /\ response.status = 200
        /\ response.body.summary.total_requests = total_requests
        /\ Len(results) = total_requests
        /\ \A i \in Raised : \E j \in 1..Len(results) :
              results[j] = futures[i + 1].value
        /\ response.body.summary.failed >= Cardinality(Raised)

\* the step in which the transport of i raises touches no other request
FailureIsolated ==
    \A i \in DOMAIN calls :
        (calls[i].state = "inflight" /\ i \in DOMAIN calls'
            /\ calls'[i].state = "raised") =>
            /\ \A j \in 1..Len(futures) : j # i + 1 => futures'[j] = futures[j]
            /\ Len(futures') = Len(futures)
            /\ work_queue' = work_queue
            /\ results' = results
            /\ raised' = raised /\ ~raised
            /\ pc' = pc

\* C3: a transport exception of request i becomes a record for i with an
\* error string and ok = false; it cancels or changes no other request
\* and the batch still returns a complete summary.
C3_FailureContained ==
    /\ [](FailureRecorded /\ FailureSummarised)
    /\ [][FailureIsolated]_vars

\* a returned batch in which one transport call raised and another answered
C3_Witness ==
    /\ BatchReturned
    /\ Raised # {}
    /\ \E i \in DOMAIN calls : calls[i].state = "returned"

OkCount(recs) == Cardinality({j \in 1..Len(recs) : recs[j].ok})
NotOkCount(recs) == Cardinality({j \in 1..Len(recs) : ~recs[j].ok})

\* C4: in the returned summary success is the number of records with
\* ok = true, failed the number with ok = false, and they add up to
\* total_requests.
C4_SummaryCounts ==
    BatchReturned =>
        LET summary == response.body.summary
        IN /\ summary.success = OkCount(results)
           /\ summary.failed = NotOkCount(results)
           /\ summary.success + summary.failed = total_requests
           /\ summary.total_requests = total_requests

\* half of a batch timed out and the other half answered 200
C4_Witness ==
    /\ BatchReturned
    /\ total_requests = 2
    /\ response.body.summary.success = 1
    /\ response.body.summary.failed = 1
    /\ Cardinality(Raised) = 1
    /\ \E j \in 1..2 : results[j].ok /\ results[j].status_code = 200

\* the handler has read the method of a request whose url it accepted
MethodRead == pc \notin {"idle", "check_url", "parse"}
Supported == {GET, POST, PUT, PATCH, DELETE}

\* C5: a request whose upper-cased method is not one of the five supported
\* ones is answered with 400 before any task is submitted: no future is
\* created, no failure record is made of it and no 200 summary returned.
C5_UnsupportedMethodRejected ==
    (MethodRead /\ method \notin Supported) =>
        /\ futures = <<>>
        /\ results = <<>>
        /\ pc = "done" => response.status = 400

CountGiven(k) == k \in DOMAIN data /\ data[k].kind = "int"
NonPositiveCount ==
    \/ CountGiven("total_requests") /\ data["total_requests"].val <= 0
    \/ CountGiven("max_workers") /\ data["max_workers"].val <= 0

\* C6: a request whose total_requests or max_workers is an integer <= 0
\* (zero included) is answered with 400 and nothing is dispatched for it.
C6_NonPositiveCountsRejected ==
    NonPositiveCount =>
        /\ futures = <<>>
        /\ pc = "done" => response.status = 400

\* the url of the request is missing, empty, of another scheme than
\* http/https, or without host
UrlRejectable ==
    \/ "url" \notin DOMAIN data
    \/ data["url"].val \in BadUrls

\* C7: a request with such a url is answered with 400 before
\* run_stress_test is called: no pool, no thread, no transport call.
C7_BadUrlRejected ==
    (pc # "idle" /\ UrlRejectable) =>
        /\ pc \in {"check_url", "done"}
        /\ pc = "done" => response.status = 400
        /\ futures = <<>>
        /\ threads = EmptyBag
        /\ work_queue = <<>>
        /\ DOMAIN calls = {}

\* a url with a scheme but no host has been answered with 400
C7_Witness ==
    /\ pc = "done"
    /\ response.status = 400
    /\ "url" \in DOMAIN data
    /\ data["url"].val = <<"h", "t", "t", "p", ":", "/", "/">>

\* C8: for a job whose method is not supported the transport is never
\* called, for any index.
C8_NoTransportCallForUnsupported ==
    (MethodRead /\ method \notin Supported) => DOMAIN calls = {}

\* every request of a job with an unsupported method has been run by a
\* worker and collected, and the transport log is still empty
C8_Witness ==
    /\ pc = "done"
    /\ method = TRACE
    /\ total_requests >= 2
    /\ Len(results) = total_requests
    /\ DOMAIN calls = {}

Dispatching == pc = "submit" /\ total_requests <= MaxRequests
Started == DOMAIN calls = 0..(total_requests - 1) \/ method_upper \notin Supported

\* C9: under fair scheduling every batch within the explored sizes
\* finishes: all requests are started, all results are collected and the
\* summary is returned.
C9_BatchTerminates ==
    Dispatching ~>
        (/\ BatchReturned
         /\ Started
         /\ AllFinished
         /\ Len(results) = total_requests
         /\ response.body.summary.total_requests = total_requests)

\* a batch with more requests than workers has returned
C9_Witness ==
    /\ BatchReturned
    /\ total_requests > max_workers
    /\ Len(results) = total_requests
    /\ DOMAIN calls = 0..(total_requests - 1)

\* the value at 0-based rank k of the ascending order of lats
AtRank(lats, k, v) ==
    /\ \E j \in 1..Len(lats) : lats[j] = v
    /\ Cardinality({j \in 1..Len(lats) : lats[j] < v}) <= k
    /\ k < Cardinality({j \in 1..Len(lats) : lats[j] <= v})

\* k is p/100 * (L-1) rounded to the nearest integer, a tie going up
NearestTieUp(k, p, L) ==
    LET d == 100 * k - p * (L - 1)
    IN (-50 < d /\ d < 50) \/ d = 50

\* k is p/100 * (L-1) rounded to the nearest integer, a tie going to the
\* even neighbour
NearestTieEven(k, p, L) ==
    LET d == 100 * k - p * (L - 1)
    IN (-50 < d /\ d < 50) \/ ((d = 50 \/ d = -50) /\ k % 2 = 0)

\* C10 as stated: the percentile is the element at rank k, k rounded with
\* a tie going up; null for the empty list.
C10_PercentileTieUp ==
    pout # <<>> =>
        \A p \in {50, 95, 99} :
            IF plat = <<>> THEN pout[p] = Null
            ELSE \E k \in 0..(Len(plat) - 1) :
                    /\ NearestTieUp(k, p, Len(plat))
                    /\ pout[p].kind = "int"
                    /\ AtRank(plat, k, pout[p].val)

\* C10 amended: the same with a tie going to the even neighbour.
C10_PercentileTieEven ==
    pout # <<>> =>
        \A p \in {50, 95, 99} :
            IF plat = <<>> THEN pout[p] = Null
            ELSE \E k \in 0..(Len(plat) - 1) :
                    /\ NearestTieEven(k, p, Len(plat))
                    /\ pout[p].kind = "int"
                    /\ AtRank(plat, k, pout[p].val)

\* the percentiles of two different latencies: the rank of p50 is a tie
C10_Witness ==
    /\ pout # <<>>
    /\ Len(plat) = 2
    /\ plat[1] > plat[2]
    /\ pout[50].kind = "int"

(***************************************************************************)
(* C11.  For every batch with at least one result each of p50, p95 and p99 *)
(* is non-null and equal to one of the recorded time_ms values: the index  *)
(* k lies in 0..L-1 and nothing is interpolated.  With a single result all *)
(* three equal the single recorded latency.                                *)
(***************************************************************************)
Recorded(lats) == {lats[j] : j \in 1..Len(lats)}

C11_PercentileIsRecorded ==
    (pout # <<>> /\ plat # <<>>) =>
        \A p \in {50, 95, 99} :
            /\ round(p * (Len(plat) - 1), 100) \in 0..(Len(plat) - 1)
            /\ pout[p] # Null
            /\ pout[p].kind = "int"
            /\ pout[p].val \in Recorded(plat)
            /\ Len(plat) = 1 => pout[p].val = plat[1]

\* the percentiles of a single latency
C11_Witness ==
    /\ pout # <<>>
    /\ Len(plat) = 1
    /\ pout[99] = Num(plat[1])

(***************************************************************************)
(* C12.  Whenever the three percentiles of a summary are non-null,         *)
(* p50 <= p95 <= p99, for every list length L >= 1 and every multiset of   *)
(* latencies.                                                              *)
(***************************************************************************)
C12_PercentilesMonotone ==
    (pout # <<>> /\ \A p \in {50, 95, 99} : pout[p] # Null) =>
        /\ pout[50].val <= pout[95].val
        /\ pout[95].val <= pout[99].val

\* a list whose median is strictly below its p99, given out of order
C12_Witness ==
    /\ pout # <<>>
    /\ Len(plat) >= 3
    /\ plat[1] > plat[Len(plat)]
    /\ pout[50] # Null /\ pout[99] # Null
    /\ pout[50].val < pout[99].val

(***************************************************************************)
(* C13.  The summary (success, failed, p50, p95, p99) is determined by the *)
(* outcomes of the indices alone: a run that collects the requests in any  *)
(* order returns the summary of the run that collects the same outcomes in *)
(* index order, so two runs that differ only in the order of collection    *)
(* return identical summaries.                                             *)
(***************************************************************************)
Core(summ) ==
    <<summ.success, summ.failed, summ.p50_time_ms, summ.p95_time_ms,
      summ.p99_time_ms>>

\* the summary of the run that collects futures 0, 1, ... in this order
InIndexOrder ==
    LET recs == [j \in 1..Len(futures) |-> futures[j].value]
        oks == {j \in 1..Len(recs) : GetOk(recs[j])}
    IN Summarize(total_requests, Cardinality(oks),
                 [j \in 1..Len(recs) |-> GetTime(recs[j])])

C13_SummaryIgnoresOrder ==
    BatchReturned => Core(response.body.summary) = Core(InIndexOrder)

\* a returned batch collected out of index order, with different latencies
C13_Witness ==
    /\ BatchReturned
    /\ Len(results) >= 2
    /\ results[1].index > results[2].index
    /\ results[1].time_ms # results[2].time_ms

(***************************************************************************)
(* C14.  For every dispatched request: if tokens is non-empty and          *)
(* auth_scheme is 'bearer' or 'basic' (case-insensitive), the headers      *)
(* contain Authorization = 'Bearer <t>' or 'Basic <t>' with t an element   *)
(* of tokens; if auth_scheme is any other value or tokens is empty, the    *)
(* headers sent are exactly the job's base headers.                        *)
(***************************************************************************)
\* the job's base headers as a mapping, and its tokens as a set of strings
JobBaseHeaders == IF job.headers.kind = "dict" THEN job.headers.val ELSE <<>>
JobTokens ==
    IF job.tokens.kind = "list"
    THEN {job.tokens.val[j].val : j \in 1..Len(job.tokens.val)}
    ELSE {}

\* the words a scheme is recognised by
IsWord(scheme, lower, upper) ==
    /\ Len(scheme) = Len(lower)
    /\ \A j \in 1..Len(scheme) : scheme[j] \in {lower[j], upper[j]}

IsBearer(scheme) == IsWord(scheme, BEARER, <<"B", "E", "A", "R", "E", "R">>)
IsBasic(scheme) == IsWord(scheme, BASIC, <<"B", "A", "S", "I", "C">>)

\* scheme with the blanks around it left out
Trimmed(scheme) ==
    LET inside == {j \in 1..Len(scheme) : scheme[j] # " "}
    IN IF inside = {} THEN <<>>
       ELSE LET first == CHOOSE j \in inside : \A k \in inside : j <= k
                last == CHOOSE j \in inside : \A k \in inside : k <= j
            IN [j \in 1..(last - first + 1) |-> scheme[first + j - 1]]

\* the headers h carry base plus the Authorization value made of a token
\* accepted by Accepts
Injected(h, scheme, Accepts(_)) ==
    \E t \in JobTokens :
        /\ Accepts(t)
        /\ DOMAIN h = DOMAIN JobBaseHeaders \cup {"Authorization"}
        /\ \A n \in DOMAIN JobBaseHeaders \ {"Authorization"} :
              h[n] = JobBaseHeaders[n]
        /\ IsBearer(scheme) =>
              h["Authorization"] = <<"B", "e", "a", "r", "e", "r", " ">> \o t
        /\ IsBasic(scheme) =>
              h["Authorization"] = <<"B", "a", "s", "i", "c", " ">> \o t

AnyToken(t) == TRUE
NonEmptyToken(t) == t # <<>>

\* C14 as stated: any drawn token is injected and the scheme is matched
\* without regard to case only.
C14_AuthAsStated ==
    \A i \in DOMAIN calls :
        LET h == calls[i].kwargs.headers
        IN IF /\ JobTokens # {}
              /\ job.auth_scheme.kind = "str"
              /\ IsBearer(job.auth_scheme.val) \/ IsBasic(job.auth_scheme.val)
           THEN Injected(h, job.auth_scheme.val, AnyToken)
           ELSE h = JobBaseHeaders

\* C14 amended: the drawn token is injected when it is a non-empty string
\* and the scheme, with the blanks around it stripped and without regard
\* to case, is bearer or basic; an empty token drawn, no token, or any
\* other scheme leaves exactly the base headers.
C14_AuthInjected ==
    \A i \in DOMAIN calls :
        LET h == calls[i].kwargs.headers
            scheme == IF job.auth_scheme.kind = "str"
                      THEN Trimmed(job.auth_scheme.val) ELSE <<>>
        IN IF JobTokens # {} /\ (IsBearer(scheme) \/ IsBasic(scheme))
           THEN \/ Injected(h, scheme, NonEmptyToken)
                \/ (<<>> \in JobTokens /\ h = JobBaseHeaders)
           ELSE h = JobBaseHeaders

\* a request sent with the Basic scheme spelt with a capital, its token
\* replacing the Authorization header of the base headers
C14_Witness ==
    \E i \in DOMAIN calls :
        /\ job.auth_scheme = Str(<<"B", "a", "s", "i", "c">>)
        /\ "Authorization" \in DOMAIN JobBaseHeaders
        /\ calls[i].kwargs.headers["Authorization"]
              = <<"B", "a", "s", "i", "c", " ", "a">>

(***************************************************************************)
(* C15.  For every dispatched request a JSON body is passed to the         *)
(* transport only when the method is POST, PUT or PATCH, and then it is    *)
(* the job's body; for GET and DELETE the transport call never receives a  *)
(* body, even when the job's body field is set.                            *)
(***************************************************************************)
C15_BodyOnlyForWritingMethods ==
    \A i \in DOMAIN calls :
        LET kwargs == calls[i].kwargs
        IN /\ "json" \in DOMAIN kwargs => method_upper \in {POST, PUT, PATCH}
           /\ method_upper \in {GET, DELETE} => "json" \notin DOMAIN kwargs
           /\ method_upper \in {POST, PUT, PATCH} =>
                 "json" \in DOMAIN kwargs /\ kwargs.json = job.body

\* a DELETE request of a job whose body is set has reached the transport
C15_Witness ==
    /\ method_upper = DELETE
    /\ job.body # Null
    /\ DOMAIN calls # {}

(***************************************************************************)
(* C16.  The order of the records in results is the order in which the     *)
(* requests completed: if request i finished before request j, the record  *)
(* of i precedes the record of j, also for the requests that had finished  *)
(* before the as_completed loop started.                                   *)
(***************************************************************************)
\* the step collects a record
CollectsRecord == Len(results') = Len(results) + 1
Collected == results'[Len(results')].index

\* C16 as stated: the record collected is always that of the request that
\* finished first among those not collected yet.
InCompletionOrder == CollectsRecord => Collected = Head(ac.order)

C16_CompletionOrder == [][InCompletionOrder]_vars

\* C16 amended: the records of the requests found finished when the loop
\* started are collected first, in any order; after them the record
\* collected is that of the request that finished first among those not
\* collected yet.
LateOnesInCompletionOrder ==
    CollectsRecord =>
        IF ac.finished # {} THEN Collected \in ac.finished
        ELSE Collected = Head(ac.order)

C16_CompletionOrderOfLateOnes == [][LateOnesInCompletionOrder]_vars

\* request 1 finished after the loop started and before request 0; its
\* record has been collected and request 0, finished since, waits
C16_Witness ==
    /\ Len(results) = 1
    /\ results[1].index = 1
    /\ ac.installed /\ ac.finished = {} /\ ac.pending = {0}
    /\ ac.order = <<0>>

(***************************************************************************)
(* C17.  The pool is work-conserving: whenever a request is still          *)
(* unstarted and fewer than max_workers requests are in flight, a free     *)
(* worker can start it at once; a pending request starts as soon as any    *)
(* single in-flight request completes, without waiting for the other       *)
(* in-flight requests (no batch-then-wait barrier).                        *)
(***************************************************************************)
Unstarted == {j \in 1..Len(work_queue) : work_queue[j] # NoneItem}

\* a thread that is not inside a transport call: it waits on the queue or
\* is on its way back to it
FreeWorkers == {th \in BagToSet(threads) : th.pc \in {"get", "release"}}

Collects(i) ==
    LET res == futures[i + 1].value
    IN /\ futures[i + 1].state = "FINISHED"
       /\ \A a \in 1..Len(results) : results[a].index # i
       /\ results' = Append(results, res)
       /\ latencies' = Append(latencies, res.time_ms)
       /\ success' = success + (IF res.ok THEN 1 ELSE 0)

SingleWriter ==
    <<results, latencies, success>>' # <<results, latencies, success>> =>
        /\ pc = "collect"
        /\ UNCHANGED <<threads, futures, work_queue, calls>>
        /\ \E i \in 0..(Len(futures) - 1) : Collects(i)

C18_SingleWriter == [][SingleWriter]_vars

\* a record has been collected while another request is still in flight
C18_Witness ==
    /\ Len(results) = 1
    /\ Len(latencies) = 1
    /\ InFlight # {}

(***************************************************************************)
(* C19.  No step of any worker changes the job's shared inputs: headers,   *)
(* tokens, body, auth_scheme and timeout, url and method are unchanged by  *)
(* every step from the first submission to the end of the batch.  Each     *)
(* request builds its own header mapping as a copy: the shared headers     *)
(* stay the mapping the client sent, what a request sends besides          *)
(* Authorization is that mapping, and the mapping one request has sent is  *)
(* not changed by the steps of another.                                    *)
(***************************************************************************)
Dispatched == pc \in {"submit", "collect", "exit_with", "join"}

InputsFrame ==
    Dispatched =>
        /\ UNCHANGED <<job, url, method, method_upper>>
        /\ job'.headers = Get(data, "headers")
        /\ \A i \in DOMAIN calls' :
              LET h == calls'[i].kwargs.headers
              IN /\ \A n \in DOMAIN h \ {"Authorization"} :
                       n \in DOMAIN JobBaseHeaders /\ h[n] = JobBaseHeaders[n]
                 /\ i \in DOMAIN calls => calls'[i].kwargs = calls[i].kwargs

C19_InputsReadOnly == [][InputsFrame]_vars

\* two requests of a job have sent different Authorization headers and the
\* shared headers carry none
C19_Witness ==
    /\ JobBaseHeaders # <<>>
    /\ "Authorization" \notin DOMAIN JobBaseHeaders
    /\ \E i, j \in DOMAIN calls :
          /\ "Authorization" \in DOMAIN calls[i].kwargs.headers
          /\ "Authorization" \in DOMAIN calls[j].kwargs.headers
          /\ calls[i].kwargs.headers["Authorization"]
                # calls[j].kwargs.headers["Authorization"]

====
